---- MODULE Spec2Model ----
(***************************************************************************)
(* Model of the duplicate-key audit scripts:                               *)
(*   - generateConfigs (scripts/findDuplicates/utils/index.js)             *)
(*   - the plain findDuplicates driver (loadConfigs, findDuplicates, main) *)
(*   - the rels findDuplicates driver (loadConfigs, findDuplicates, main)  *)
(*   - the index audit driver                                              *)
(* A JavaScript string is a sequence of one-character strings, so that     *)
(* replace(/_1$/, ""), includes("rels"), template literals and the         *)
(* integer-key ordering of for...in are computed, not looked up.           *)
(***************************************************************************)
EXTENDS Integers, Sequences, FiniteSets, TLC

VARIABLES
    driver,             \* which script runs: "plain", "rels" or "audit"
    pc,                 \* position of the script's single thread of control
    fs,                 \* the files the scripts read: path -> content
    dirs,               \* the output directories that exist
    configs,            \* main: const configs = await loadConfigs(...)
    connected,          \* the MongoClient holds an open connection
    idx,                \* findDuplicates: position of `for (const config of configs)`
    fieldIdx,           \* findDuplicates: position of `for (const field of fields)`
    collectionResults,  \* findDuplicates: const collectionResults = []
    resultObj,          \* rels findDuplicates: const resultObj = {...}
    finalResults,       \* finalResults (rels) / resultsByCollection (plain)
    auditColls,         \* index audit: const collections = await listCollections()
    indexes,            \* index audit: let indexes = await collection.indexes()
    wIdx,               \* main: position of the loop that writes the artifacts
    exitCode,           \* the process's exit status, meaningful once pc = "exited"
    events              \* every call to the store, the file system and the console, in order

vars == << driver, pc, fs, dirs, configs, connected, idx, fieldIdx,
           collectionResults, resultObj, finalResults, auditColls, indexes, wIdx,
           exitCode, events >>

(***************************************************************************)
(* Bounds of the model.                                                    *)
(***************************************************************************)
MaxCollections == 2     \* collections of a Failure Report
MaxIndexes == 2         \* index entries of one collection of a Failure Report
MaxTargets == 2         \* elements of a plan handed to findDuplicates
MaxFields == 2          \* fields of one scan target
MaxListed == 2          \* collections the index audit finds in the database
MaxDocs == 4            \* documents of a scanned collection

(***************************************************************************)
(* JavaScript values.                                                      *)
(***************************************************************************)
JSUndefined == [t |-> "undefined"]
JSNull == [t |-> "null"]
JSNum(n) == [t |-> "number", n |-> n]
JSStr(s) == [t |-> "string", s |-> s]
JSArr(a) == [t |-> "array", a |-> a]

\* ToBoolean, as `||`, `&&`, `!` and `if` apply it
Truthy(v) ==
    CASE v.t = "undefined" -> FALSE
      [] v.t = "null" -> FALSE
      [] v.t = "number" -> v.n # 0
      [] v.t = "string" -> v.s # <<>>
      [] OTHER -> TRUE

Digits == <<"0", "1", "2", "3", "4", "5", "6", "7", "8", "9">>

IsDigit(c) == \E d \in 1..Len(Digits) : Digits[d] = c

DigitValue(c) == (CHOOSE d \in 1..Len(Digits) : Digits[d] = c) - 1

\* a property key that is a canonical array index ("0", "7", "12", not "07")
IsArrayIndex(s) ==
    /\ Len(s) > 0
    /\ \A i \in 1..Len(s) : IsDigit(s[i])
    /\ (Len(s) > 1 => s[1] # "0")

RECURSIVE NumericValue(_)
NumericValue(s) ==
    IF s = <<>> THEN 0
    ELSE 10 * NumericValue(SubSeq(s, 1, Len(s) - 1)) + DigitValue(s[Len(s)])

\* String.prototype.endsWith / includes on character sequences
EndsWith(s, suffix) ==
    /\ Len(s) >= Len(suffix)
    /\ SubSeq(s, Len(s) - Len(suffix) + 1, Len(s)) = suffix

Includes(s, part) ==
    \E i \in 1..(Len(s) + 1) :
        /\ i + Len(part) - 1 <= Len(s)
        /\ SubSeq(s, i, i + Len(part) - 1) = part

(***************************************************************************)
(* A JavaScript object is kept as the sequence of its own (key, value)     *)
(* pairs in property order: array-index keys first, ascending, then the    *)
(* other string keys in the order they were created.                       *)
(***************************************************************************)
RECURSIVE InsertIndexKey(_, _)
InsertIndexKey(obj, pair) ==
    IF obj = <<>> THEN << pair >>
    ELSE IF /\ IsArrayIndex(obj[1].key)
            /\ NumericValue(obj[1].key) < NumericValue(pair.key)
         THEN << obj[1] >> \o InsertIndexKey(Tail(obj), pair)
         ELSE << pair >> \o obj

\* obj[key] = value
ObjSet(obj, key, value) ==
    IF \E i \in 1..Len(obj) : obj[i].key = key
    THEN [i \in 1..Len(obj) |->
            IF obj[i].key = key THEN [key |-> key, value |-> value] ELSE obj[i]]
    ELSE IF IsArrayIndex(key)
         THEN InsertIndexKey(obj, [key |-> key, value |-> value])
         ELSE Append(obj, [key |-> key, value |-> value])

\* JSON.parse of an object literal: the members are defined in textual order
RECURSIVE ObjFromText(_)
ObjFromText(members) ==
    IF members = <<>> THEN <<>>
    ELSE ObjSet(ObjFromText(SubSeq(members, 1, Len(members) - 1)),
                members[Len(members)].key, members[Len(members)].value)

(***************************************************************************)
(* Files.  A file is missing, holds text that JSON.parse rejects, or holds *)
(* a JSON document.                                                        *)
(***************************************************************************)
InputFile == "input/updateIndex.failure.json"
OutputFile == "output/duplicates_json/duplicateKeys.json"
DefaultConfigFile == "output/duplicateKeys.json"

Files == {InputFile, OutputFile, DefaultConfigFile}

\* the directory a path lies in
DirName(file) ==
    CASE file = InputFile -> "input"
      [] file = OutputFile -> "output/duplicates_json"
      [] file = DefaultConfigFile -> "output"

FileMissing == [kind |-> "missing"]
FileGarbage == [kind |-> "garbage"]

\* JSON.stringify(value, null, 2) of a value without undefined members
JSONStringify(value) == [kind |-> "json", doc |-> value]

\* fs.readFile followed by JSON.parse: the parsed value, or a throw
ReadThrows(content) == content.kind # "json"

JSONParse(content) == content.doc

(***************************************************************************)
(* generateConfigs.  The parsed Failure Report is an object: collection    *)
(* name -> (index name -> indexData); indexData.err is undefined or an     *)
(* object {code, errorResponse}, errorResponse undefined or {code}.        *)
(***************************************************************************)
DuplicateKey == 11000

\* line 45 throws a TypeError when indexData.err is undefined
ErrCodeThrows(indexData) == indexData.err.t = "undefined"

\* indexData.err.code || (indexData.err.errorResponse && indexData.err.errorResponse.code)
ErrCode(indexData) ==
    IF Truthy(indexData.err.code)
    THEN indexData.err.code
    ELSE IF Truthy(indexData.err.errorResponse)
         THEN indexData.err.errorResponse.code
         ELSE indexData.err.errorResponse

\* errCode === 11000
IsDuplicateKey(v) == v.t = "number" /\ v.n = DuplicateKey

\* indexName.replace(/_1$/, "")
StripSuffix(indexName) ==
    IF EndsWith(indexName, <<"_", "1">>)
    THEN SubSeq(indexName, 1, Len(indexName) - 2)
    ELSE indexName

\* the inner loop `for (const indexName in indexes)`: the fields pushed, or a throw
RECURSIVE CollectFields(_)
CollectFields(indexMap) ==
    IF indexMap = <<>> THEN [threw |-> FALSE, fields |-> <<>>]
    ELSE LET before == CollectFields(SubSeq(indexMap, 1, Len(indexMap) - 1))
             last == indexMap[Len(indexMap)]
         IN  IF before.threw \/ ErrCodeThrows(last.value)
             THEN [threw |-> TRUE, fields |-> <<>>]
             ELSE IF IsDuplicateKey(ErrCode(last.value))
                  THEN [threw |-> FALSE,
                        fields |-> Append(before.fields, StripSuffix(last.key))]
                  ELSE before

\* the outer loop `for (const collectionName in data)`: newConfigs, or a throw
RECURSIVE NewConfigs(_)
NewConfigs(data) ==
    IF data = <<>> THEN [threw |-> FALSE, configs |-> <<>>]
    ELSE LET before == NewConfigs(SubSeq(data, 1, Len(data) - 1))
             last == data[Len(data)]
             inner == CollectFields(last.value)
         IN  IF before.threw \/ inner.threw
             THEN [threw |-> TRUE, configs |-> <<>>]
             ELSE IF Len(inner.fields) > 0
                  THEN [threw |-> FALSE,
                        configs |-> Append(before.configs,
                                           [t |-> "object",
                                            collection |-> JSStr(last.key),
                                            fields |-> JSArr(inner.fields)])]
                  ELSE before

\* JSON.parse of the report text: both levels become objects in property order
ParseReport(content) ==
    LET members == JSONParse(content).members
    IN  ObjFromText([i \in 1..Len(members) |->
                        [key |-> members[i].key,
                         value |-> ObjFromText(members[i].value)]])

(***************************************************************************)
(* Inputs: names, Failure Reports and plan artifacts.                      *)
(***************************************************************************)
UsersName == <<"u", "s", "e", "r", "s">>
RelsName == <<"a", ".", "r", "e", "l", "s", ".", "b">>
DigitName == <<"7">>

CollectionNames == {UsersName, RelsName, DigitName}

\* index names "e_1", "s", "n_1_1", in the order a report lists them
IndexNameOrder == << <<"e", "_", "1">>, <<"s">>, <<"n", "_", "1", "_", "1">> >>

ErrObj(code, resp) == [t |-> "object", code |-> code, errorResponse |-> resp]

Envelope(code) == [t |-> "object", code |-> code]

\* the shapes of one index entry of a report: no err object, no code at all,
\* code 11000 or 85 at err.code, 11000 at err.errorResponse.code with err.code
\* missing or 0
IndexDatas ==
    { [err |-> JSUndefined],
      [err |-> ErrObj(JSUndefined, JSUndefined)],
      [err |-> ErrObj(JSNum(DuplicateKey), JSUndefined)],
      [err |-> ErrObj(JSNum(85), JSUndefined)],
      [err |-> ErrObj(JSUndefined, Envelope(JSNum(DuplicateKey)))],
      [err |-> ErrObj(JSNum(0), Envelope(JSNum(DuplicateKey)))] }

\* the index maps of a collection, as the members of the JSON text
IndexMaps(datas, n) ==
    UNION { { [i \in 1..k |-> [key |-> IndexNameOrder[i], value |-> d[i]]] :
                d \in [1..k -> datas] } : k \in 0..n }

\* the sequences of at most n distinct elements of S
DistinctSeqs(S, n) ==
    UNION { { q \in [1..k -> S] : \A i, j \in 1..k : q[i] = q[j] => i = j } :
            k \in 0..n }

\* the Failure Reports, as the members of the JSON text
Reports(maxCollections, maxIndexes) ==
    UNION { { [i \in 1..Len(names) |-> [key |-> names[i], value |-> maps[i]]] :
                maps \in [1..Len(names) -> IndexMaps(IndexDatas, maxIndexes)] } :
            names \in DistinctSeqs(CollectionNames, maxCollections) }

DupEntry == [err |-> ErrObj(JSNum(DuplicateKey), JSUndefined)]
NestedDupEntry == [err |-> ErrObj(JSUndefined, Envelope(JSNum(DuplicateKey)))]
ExistsEntry == [err |-> ErrObj(JSNum(85), JSUndefined)]
NoErrEntry == [err |-> JSUndefined]

Member(key, value) == [key |-> key, value |-> value]

\* the reports the whole-run specification starts from
RunReports ==
    { <<>>,
      << Member(UsersName, << Member(IndexNameOrder[1], DupEntry) >>) >>,
      << Member(RelsName, << Member(IndexNameOrder[1], NestedDupEntry),
                             Member(IndexNameOrder[2], DupEntry) >>),
         Member(UsersName, << Member(IndexNameOrder[1], ExistsEntry),
                              Member(IndexNameOrder[2], DupEntry) >>) >>,
      << Member(UsersName, << Member(IndexNameOrder[1], NoErrEntry),
                              Member(IndexNameOrder[2], DupEntry) >>) >> }

Target(name, fields) ==
    [t |-> "object", collection |-> name, fields |-> fields]

FieldOrder == << <<"e">>, <<"s">>, <<"n">> >>

\* the plan artifacts a run may find on disk, left by an earlier run or by hand
RunPlans ==
    { JSArr(<< Target(JSStr(UsersName), JSArr(<< FieldOrder[1] >>)) >>),
      JSArr(<< Target(JSStr(RelsName), JSArr(<< FieldOrder[2], FieldOrder[1] >>)),
               Target(JSStr(DigitName), JSArr(<< FieldOrder[1] >>)) >>),
      JSArr(<< JSNull, Target(JSStr(UsersName), JSArr(<< FieldOrder[1] >>)) >>),
      [t |-> "object"] }

PlanFiles == {FileMissing, FileGarbage} \cup { JSONStringify(p) : p \in RunPlans }

\* the text of a report whose members are listed in the given order
ReportText(members) == JSONStringify([t |-> "object", members |-> members])

ReportFiles(reports) == {FileMissing, FileGarbage} \cup { ReportText(r) : r \in reports }

\* the three files of a run
FileSystem(report, output, config) ==
    [f \in Files |->
        CASE f = InputFile -> report
          [] f = OutputFile -> output
          [] f = DefaultConfigFile -> config]

(***************************************************************************)
(* The calls a run makes, recorded in program order.                       *)
(***************************************************************************)
EvRead(file) == [op |-> "readFile", file |-> file]
EvWrite(dir, file, ok, content) ==
    [op |-> "writeFile", dir |-> dir, file |-> file, ok |-> ok, content |-> content]
EvMkdir(dir, ok) == [op |-> "mkdir", dir |-> dir, ok |-> ok]
EvConnect(ok) == [op |-> "connect", ok |-> ok]
EvClose == [op |-> "close"]
EvStore(op, coll, at, ok) == [op |-> op, coll |-> coll, at |-> at, ok |-> ok]
EvAggregate(coll, field, at, ok, found) ==
    [op |-> "aggregate", coll |-> coll, field |-> field, at |-> at, ok |-> ok,
     found |-> found]
EvFindOne(coll, at, ok, doc) ==
    [op |-> "findOne", coll |-> coll, at |-> at, ok |-> ok, doc |-> doc]
EvIndexes(coll, at, ok, list) ==
    [op |-> "indexes", coll |-> coll, at |-> at, ok |-> ok, list |-> list]
EvIndexStats(coll, at, ok, stats) ==
    [op |-> "indexStats", coll |-> coll, at |-> at, ok |-> ok, stats |-> stats]
EvInvalid(at) == [op |-> "console.error", msg |-> "config", at |-> at]
EvLog(msg) == [op |-> "console.log", msg |-> msg]
EvError(msg) == [op |-> "console.error", msg |-> msg]
EvExit(code) == [op |-> "process.exit", code |-> code]

StoreOps == {"aggregate", "findOne", "listCollections", "indexes", "indexStats"}

NoResult == [t |-> "undefined"]

ScriptVarsInit ==
    /\ connected = FALSE
    /\ idx = 0
    /\ fieldIdx = 0
    /\ collectionResults = <<>>
    /\ resultObj = NoResult
    /\ finalResults = <<>>
    /\ auditColls = <<>>
    /\ indexes = <<>>
    /\ wIdx = 0
    /\ exitCode = 0
    /\ events = <<>>

\* a file can only be there when its directory is
FilesFit == fs[OutputFile] # FileMissing => DirName(OutputFile) \in dirs

\* the start of a run of one of the three scripts
Init ==
    /\ driver \in {"plain", "rels", "audit"}
    /\ pc = IF driver = "audit" THEN "connect" ELSE "generate"
    /\ dirs \in SUBSET {DirName(OutputFile)}
    /\ \E report \in (IF driver = "audit" THEN {FileMissing} ELSE ReportFiles(RunReports)),
          output \in (IF driver = "rels" THEN PlanFiles ELSE {FileMissing}),
          config \in (IF driver = "plain" THEN PlanFiles ELSE {FileMissing}) :
            fs = FileSystem(report, output, config)
    /\ FilesFit
    /\ configs = JSArr(<<>>)
    /\ ScriptVarsInit

(***************************************************************************)
(* generateConfigs (utils/index.js 21-68), one call.                       *)
(***************************************************************************)
\* the outcome of lines 26-60: the plan to write, or a throw
Generated(content) ==
    IF ReadThrows(content)
    THEN [threw |-> TRUE, configs |-> <<>>]
    ELSE NewConfigs(ParseReport(content))

GenerateConfigs ==
    /\ pc = "generate"
    /\ LET out == Generated(fs[InputFile])
       IN  IF out.threw
           THEN /\ events' = events \o << EvRead(InputFile), EvError("generate") >>
                /\ UNCHANGED fs
           ELSE \E ok \in BOOLEAN :
                /\ ok => DirName(OutputFile) \in dirs
                /\ LET text == JSONStringify(JSArr(out.configs))
                   IN  IF ok
                       THEN /\ fs' = [fs EXCEPT ![OutputFile] = text]
                            /\ events' = events \o
                                 << EvRead(InputFile),
                                    EvWrite(DirName(OutputFile), OutputFile, TRUE, text),
                                    EvLog("generated") >>
                       ELSE /\ UNCHANGED fs
                            /\ events' = events \o
                                 << EvRead(InputFile),
                                    EvWrite(DirName(OutputFile), OutputFile, FALSE, text),
                                    EvError("generate") >>
    /\ pc' = "load"
    /\ UNCHANGED << driver, dirs, configs, connected, idx, fieldIdx, collectionResults,
                    resultObj, finalResults, auditColls, indexes, wIdx, exitCode >>

(***************************************************************************)
(* loadConfigs and its call in main.                                       *)
(***************************************************************************)
\* the path main hands to loadConfigs
ConfigFile ==
    IF driver = "plain" THEN DefaultConfigFile ELSE OutputFile

\* a loader that answers a failed read with an empty plan
LoadConfigsLenient ==
    /\ pc = "load"
    /\ IF ReadThrows(fs[ConfigFile])
       THEN /\ events' = events \o << EvRead(ConfigFile), EvError("load") >>
            /\ configs' = JSArr(<<>>)
       ELSE /\ events' = events \o << EvRead(ConfigFile) >>
            /\ configs' = JSONParse(fs[ConfigFile])
    /\ pc' = "connect"
    /\ UNCHANGED << driver, fs, dirs, connected, idx, fieldIdx, collectionResults,
                    resultObj, finalResults, auditColls, indexes, wIdx, exitCode >>

LoadConfigs ==
    /\ pc = "load"
    /\ IF ReadThrows(fs[ConfigFile])
       THEN /\ events' = events \o << EvRead(ConfigFile), EvError("load"), EvExit(1) >>
            /\ pc' = "exited"
            /\ exitCode' = 1
            /\ UNCHANGED configs
       ELSE /\ events' = events \o << EvRead(ConfigFile) >>
            /\ configs' = JSONParse(fs[ConfigFile])
            /\ pc' = "connect"
            /\ UNCHANGED exitCode
    /\ UNCHANGED << driver, fs, dirs, connected, idx, fieldIdx, collectionResults,
                    resultObj, finalResults, auditColls, indexes, wIdx >>

(***************************************************************************)
(* findDuplicates (plain driver 33-90, rels driver 46-126).                *)
(***************************************************************************)
RECURSIVE NumToString(_)
NumToString(n) ==
    IF n < 10 THEN << Digits[n + 1] >>
    ELSE NumToString(n \div 10) \o << Digits[(n % 10) + 1] >>

\* a name as a template literal or a property key renders it
JSToString(v) == IF v.t = "number" THEN NumToString(v.n) ELSE v.s

\* a stored document, as the pipeline sees it: its _id and its value of the
\* scanned field, undefined when the document lacks the field
Doc(id, value) == [id |-> id, value |-> value]

\* `_id: "$field"`: $group puts the documents that lack the field under null
GroupKey(doc) == IF doc.value.t = "undefined" THEN JSNull ELSE doc.value

\* `count: { $sum: 1 }`
CountOf(stored, key) ==
    Cardinality({ i \in 1..Len(stored) : GroupKey(stored[i]) = key })

\* `docs: { $push: { _id: "$_id" } }`
DocsOf(stored, key) ==
    LET InGroup(doc) == GroupKey(doc) = key
        members == SelectSeq(stored, InGroup)
    IN  [i \in 1..Len(members) |-> [id |-> members[i].id]]

\* the $group stage
Groups(stored) ==
    { [id |-> key, count |-> CountOf(stored, key), docs |-> DocsOf(stored, key)] :
        key \in { GroupKey(stored[i]) : i \in 1..Len(stored) } }

\* a $match stage that lets every group pass
MatchesAny(group) == group.count > 0

\* `{ $match: { count: { $gt: 1 } } }`
Matches(group) == group.count > 1

\* `{ $sort: { count: -1 } }`: the orders with count non-increasing; the order
\* of groups with equal count is left to the store
SortedByCount(groups) ==
    { q \in [1..Cardinality(groups) -> groups] :
        /\ \A i, j \in 1..Cardinality(groups) : q[i] = q[j] => i = j
        /\ \A i \in 1..(Cardinality(groups) - 1) : q[i].count >= q[i + 1].count }

\* what the pipeline may answer over the stored documents
Pipeline(stored) == SortedByCount({ g \in Groups(stored) : Matches(g) })

FieldValues == { JSStr(<<"v">>), JSStr(<<"w">>), JSNull, JSUndefined }

\* the collections of at most maxDocs documents, _id 1, 2, ...
StoreContents(maxDocs) ==
    UNION { { [i \in 1..n |-> Doc(i, q[i])] : q \in [1..n -> FieldValues] } :
            n \in 0..maxDocs }

\* the collections the whole-run specifications scan: an empty one, and one
\* with two documents of the same value
RunContents ==
    { <<>>, << Doc(1, JSStr(<<"v">>)), Doc(2, JSStr(<<"v">>)) >> }

\* what collection.aggregate(pipeline).toArray() answers: a throw, or the groups
\* with count > 1
AggregateAnswers(contents) ==
    { [ok |-> FALSE, docs |-> <<>>] } \cup
    { [ok |-> TRUE, docs |-> q] : q \in UNION { Pipeline(c) : c \in contents } }

Cardinality5 == [t |-> "object", cardinality |-> JSNum(5)]
Cardinality10 == [t |-> "object", cardinality |-> JSNum(10)]

\* what findOne on meta.rels answers: a throw, null, or a metadata record whose
\* dest and source are missing, null, or an object that carries a cardinality
FindOneAnswers ==
    { [ok |-> FALSE, doc |-> JSNull], [ok |-> TRUE, doc |-> JSNull] } \cup
    { [ok |-> TRUE, doc |-> [t |-> "object", dest |-> d, source |-> s]] :
        d \in {JSUndefined, JSNull, Cardinality10}, s \in {JSUndefined, Cardinality5} }

\* a catch without finally: a throw inside the try block skips client.close()
AfterCatchNoFinally == IF driver = "audit" THEN "exited" ELSE "mkdir"

\* where a throw inside the try block leads: catch logs it, finally closes
AfterCatch == "close"

\* a failed connect that ends the process with status 1
ConnectFatal ==
    /\ pc = "connect"
    /\ \E ok \in BOOLEAN :
        IF ok
        THEN /\ connected' = TRUE
             /\ events' = events \o << EvConnect(TRUE) >>
             /\ pc' = IF driver = "audit" THEN "list" ELSE "config"
             /\ idx' = 1
             /\ UNCHANGED exitCode
        ELSE /\ events' = events \o << EvConnect(FALSE), EvError("query"), EvExit(1) >>
             /\ pc' = "exited"
             /\ exitCode' = 1
             /\ UNCHANGED << connected, idx >>
    /\ UNCHANGED << driver, fs, dirs, configs, fieldIdx, collectionResults, resultObj,
                    finalResults, auditColls, indexes, wIdx >>

\* await client.connect(), the first statement of the try block
Connect ==
    /\ pc = "connect"
    /\ \E ok \in BOOLEAN :
        IF ok
        THEN /\ connected' = TRUE
             /\ events' = events \o << EvConnect(TRUE) >>
             /\ pc' = IF driver = "audit" THEN "list" ELSE "config"
             /\ idx' = 1
        ELSE /\ events' = events \o << EvConnect(FALSE), EvError("query") >>
             /\ pc' = AfterCatch
             /\ UNCHANGED << connected, idx >>
    /\ UNCHANGED << driver, fs, dirs, configs, fieldIdx, collectionResults, resultObj,
                    finalResults, auditColls, indexes, wIdx, exitCode >>

\* `!collectionName || !Array.isArray(fields)`
InvalidConfig(config) ==
    \/ ~Truthy(config.collection)
    \/ config.fields.t # "array"

\* destructuring `const { collection, fields } = config` throws on null
DestructureThrows(config) == config.t \in {"null", "undefined"}

\* one turn of `for (const config of configs)` up to the field loop
NextConfig ==
    /\ pc = "config"
    /\ IF configs.t # "array"
       THEN \* configs is not iterable: TypeError, caught by the outer catch
            /\ events' = events \o << EvError("query") >>
            /\ pc' = AfterCatch
            /\ UNCHANGED << idx, fieldIdx, collectionResults >>
       ELSE IF idx > Len(configs.a)
       THEN /\ pc' = "close"
            /\ UNCHANGED << events, idx, fieldIdx, collectionResults >>
       ELSE IF DestructureThrows(configs.a[idx])
       THEN /\ events' = events \o << EvError("query") >>
            /\ pc' = AfterCatch
            /\ UNCHANGED << idx, fieldIdx, collectionResults >>
       ELSE IF InvalidConfig(configs.a[idx])
       THEN /\ events' = events \o << EvInvalid(idx) >>
            /\ idx' = idx + 1
            /\ UNCHANGED << pc, fieldIdx, collectionResults >>
       ELSE /\ events' = events \o << EvLog("collection") >>
            /\ collectionResults' = <<>>
            /\ fieldIdx' = 1
            /\ pc' = "field"
            /\ UNCHANGED idx
    /\ UNCHANGED << driver, fs, dirs, configs, connected, resultObj, finalResults,
                    auditColls, indexes, wIdx, exitCode >>

\* every answer of the grouping query taken as a find
HasDuplicatesAlways(duplicates) == Len(duplicates) >= 0

\* `duplicates.length > 0`
HasDuplicates(duplicates) == Len(duplicates) > 0

\* a field loop that ends after its first turn
FieldLoopDoneEarly == fieldIdx > Len(configs.a[idx].fields.a) \/ fieldIdx > 1

\* `for (const field of fields)` has gone through every field
FieldLoopDone == fieldIdx > Len(configs.a[idx].fields.a)

\* one turn of `for (const field of fields)`: the grouping query and its result
AggregateWith(contents) ==
    /\ pc = "field"
    /\ ~FieldLoopDone
    /\ LET config == configs.a[idx]
           field == config.fields.a[fieldIdx]
       IN  \E answer \in AggregateAnswers(contents) :
            IF ~answer.ok
            THEN /\ events' = events \o
                      << EvLog("field"),
                         EvAggregate(config.collection, field, <<idx, fieldIdx>>,
                                     FALSE, FALSE),
                         EvError("query") >>
                 /\ pc' = AfterCatch
                 /\ UNCHANGED << fieldIdx, collectionResults >>
            ELSE /\ events' = events \o
                      << EvLog("field"),
                         EvAggregate(config.collection, field, <<idx, fieldIdx>>,
                                     TRUE, HasDuplicates(answer.docs)),
                         EvLog(IF HasDuplicates(answer.docs) THEN "found" ELSE "clean") >>
                 /\ collectionResults' =
                      IF HasDuplicates(answer.docs)
                      THEN Append(collectionResults,
                                  [field |-> field, duplicates |-> answer.docs])
                      ELSE collectionResults
                 /\ fieldIdx' = fieldIdx + 1
                 /\ UNCHANGED pc
    /\ UNCHANGED << driver, fs, dirs, configs, connected, idx, resultObj, finalResults,
                    auditColls, indexes, wIdx, exitCode >>

\* the field loop over the collections of the whole-run specifications
Aggregate == AggregateWith(RunContents)

Absent == [t |-> "absent"]

\* the resultObj of the rels driver, before enrichment
NewResultObj(config) ==
    [collection |-> config.collection, results |-> collectionResults,
     destCardinality |-> Absent, sourceCardinality |-> Absent]

\* the end of the field loop: what the target adds to the result
EndFields ==
    /\ pc = "field"
    /\ FieldLoopDone
    /\ LET config == configs.a[idx]
       IN  IF Len(collectionResults) = 0
           THEN /\ idx' = idx + 1
                /\ pc' = "config"
                /\ UNCHANGED << events, resultObj, finalResults >>
           ELSE IF driver = "plain"
           THEN /\ finalResults' =
                     ObjSet(finalResults, JSToString(config.collection), collectionResults)
                /\ idx' = idx + 1
                /\ pc' = "config"
                /\ UNCHANGED << events, resultObj >>
           ELSE IF config.collection.t # "string"
           THEN \* collectionName.includes is not a function: TypeError
                /\ resultObj' = NewResultObj(config)
                /\ events' = events \o << EvError("query") >>
                /\ pc' = AfterCatch
                /\ UNCHANGED << idx, finalResults >>
           ELSE IF Includes(config.collection.s, <<"r", "e", "l", "s">>)
           THEN /\ resultObj' = NewResultObj(config)
                /\ events' = events \o << EvLog("rels") >>
                /\ pc' = "lookup"
                /\ UNCHANGED << idx, finalResults >>
           ELSE /\ resultObj' = NewResultObj(config)
                /\ finalResults' = Append(finalResults, NewResultObj(config))
                /\ idx' = idx + 1
                /\ pc' = "config"
                /\ UNCHANGED events
    /\ UNCHANGED << driver, fs, dirs, configs, connected, fieldIdx, collectionResults,
                    auditColls, indexes, wIdx, exitCode >>

\* `metaRelationDoc.dest && metaRelationDoc.dest.cardinality`
SideCardinality(side) == IF Truthy(side) THEN side.cardinality ELSE side

\* resultObj after lines 106-113
Enriched(obj, doc) ==
    IF Truthy(doc)
    THEN [obj EXCEPT !.destCardinality = SideCardinality(doc.dest),
                     !.sourceCardinality = SideCardinality(doc.source)]
    ELSE obj

\* the metadata lookup of the rels driver and the push of the result
FindOne ==
    /\ pc = "lookup"
    /\ \E answer \in FindOneAnswers :
        IF ~answer.ok
        THEN /\ events' = events \o
                  << EvFindOne(resultObj.collection, idx, FALSE, answer.doc),
                     EvError("query") >>
             /\ pc' = AfterCatch
             /\ UNCHANGED << idx, resultObj, finalResults >>
        ELSE /\ events' = events \o
                  << EvFindOne(resultObj.collection, idx, TRUE, answer.doc) >> \o
                  (IF Truthy(answer.doc) THEN <<>> ELSE << EvLog("no meta") >>)
             /\ resultObj' = Enriched(resultObj, answer.doc)
             /\ finalResults' = Append(finalResults, Enriched(resultObj, answer.doc))
             /\ idx' = idx + 1
             /\ pc' = "config"
    /\ UNCHANGED << driver, fs, dirs, configs, connected, fieldIdx, collectionResults,
                    auditColls, indexes, wIdx, exitCode >>

\* finally { await client.close() } and the return to main
Close ==
    /\ pc = "close"
    /\ events' = events \o << EvClose >>
    /\ connected' = FALSE
    /\ pc' = IF driver = "audit" THEN "exited" ELSE "mkdir"
    /\ UNCHANGED << driver, fs, dirs, configs, idx, fieldIdx, collectionResults,
                    resultObj, finalResults, auditColls, indexes, wIdx, exitCode >>

(***************************************************************************)
(* main of the two findDuplicates drivers, after findDuplicates returned.  *)
(***************************************************************************)
EvSummary(content) == [op |-> "console.log", msg |-> "summary", content |-> content]

\* const outputDir
OutputDir ==
    IF driver = "plain" THEN "output/duplicaties_json" ELSE "output/duplicates_json"

DuplicatesSuffix ==
    <<"_", "d", "u", "p", "l", "i", "c", "a", "t", "e", "s", ".", "j", "s", "o", "n">>

\* JSON.stringify leaves out the properties whose value is undefined or a
\* function
Stringified(v) == IF v.t \in {"undefined", "function"} THEN Absent ELSE v

\* the i-th Collection Result main writes: its file name and its JSON text
Artifact(i) ==
    IF driver = "plain"
    THEN [file |-> finalResults[i].key \o DuplicatesSuffix,
          text |-> JSONStringify([collection |-> JSStr(finalResults[i].key),
                                  results |-> finalResults[i].value,
                                  destCardinality |-> Absent,
                                  sourceCardinality |-> Absent])]
    ELSE [file |-> JSToString(finalResults[i].collection) \o DuplicatesSuffix,
          text |-> JSONStringify(
                     [collection |-> finalResults[i].collection,
                      results |-> finalResults[i].results,
                      destCardinality |-> Stringified(finalResults[i].destCardinality),
                      sourceCardinality |-> Stringified(finalResults[i].sourceCardinality)])]

\* the summary on the console, then fs.mkdir(outputDir, { recursive: true })
Mkdir ==
    /\ pc = "mkdir"
    /\ \E ok \in BOOLEAN :
        IF ok
        THEN /\ events' = events \o << EvSummary(finalResults), EvMkdir(OutputDir, TRUE) >>
             /\ dirs' = dirs \cup {OutputDir}
             /\ wIdx' = 1
             /\ pc' = "write"
             /\ UNCHANGED exitCode
        ELSE /\ events' = events \o
                  << EvSummary(finalResults), EvMkdir(OutputDir, FALSE),
                     EvError("mkdir"), EvExit(1) >>
             /\ pc' = "exited"
             /\ exitCode' = 1
             /\ UNCHANGED << dirs, wIdx >>
    /\ UNCHANGED << driver, fs, configs, connected, idx, fieldIdx, collectionResults,
                    resultObj, finalResults, auditColls, indexes >>

\* a writer whose first failed write ends the process with status 1
WriteResultFatal ==
    /\ pc = "write"
    /\ wIdx <= Len(finalResults)
    /\ \E ok \in BOOLEAN :
        /\ ok => OutputDir \in dirs
        /\ IF ok
           THEN /\ events' = events \o
                     << EvWrite(OutputDir, Artifact(wIdx).file, TRUE, Artifact(wIdx).text),
                        EvLog("written") >>
                /\ wIdx' = wIdx + 1
                /\ UNCHANGED << pc, exitCode >>
           ELSE /\ events' = events \o
                     << EvWrite(OutputDir, Artifact(wIdx).file, FALSE, Artifact(wIdx).text),
                        EvError("write"), EvExit(1) >>
                /\ pc' = "exited"
                /\ exitCode' = 1
                /\ UNCHANGED wIdx
    /\ UNCHANGED << driver, fs, dirs, configs, connected, idx, fieldIdx,
                    collectionResults, resultObj, finalResults, auditColls, indexes >>

\* one turn of the loop that writes one artifact per Collection Result
WriteResult ==
    /\ pc = "write"
    /\ wIdx <= Len(finalResults)
    /\ \E ok \in BOOLEAN :
        /\ ok => OutputDir \in dirs
        /\ events' = events \o
             << EvWrite(OutputDir, Artifact(wIdx).file, ok, Artifact(wIdx).text),
                IF ok THEN EvLog("written") ELSE EvError("write") >>
    /\ wIdx' = wIdx + 1
    /\ UNCHANGED << driver, pc, fs, dirs, configs, connected, idx, fieldIdx,
                    collectionResults, resultObj, finalResults, auditColls, indexes,
                    exitCode >>

\* the async main function returns and the process ends
Finish ==
    /\ pc = "write"
    /\ wIdx > Len(finalResults)
    /\ pc' = "exited"
    /\ exitCode' = 0
    /\ UNCHANGED << driver, fs, dirs, configs, connected, idx, fieldIdx,
                    collectionResults, resultObj, finalResults, auditColls, indexes,
                    wIdx, events >>

(***************************************************************************)
(* The index audit (rels file 181-265).                                    *)
(***************************************************************************)
IndexCeiling == 64

IndexesDir == "output/indexes_json"

IndexesSuffix ==
    <<"_", "i", "n", "d", "e", "x", "e", "s", ".", "j", "s", "o", "n">>

ListedOrder == << UsersName, RelsName, DigitName >>

\* what db.listCollections().toArray() answers: a throw, or the collections
ListAnswers ==
    { [ok |-> FALSE, colls |-> <<>>] } \cup
    { [ok |-> TRUE, colls |-> SubSeq(ListedOrder, 1, n)] : n \in 0..MaxListed }

\* the index name "constructor", a member that every object literal inherits,
\* is written 0; the other index names are written 1, 2, ...
InheritedName == 0

\* Object.prototype.constructor
JSFunction == [t |-> "function"]

\* n indexes, named 1..n
IndexList(n) == [i \in 1..n |-> [name |-> i]]

\* n indexes, the first one named "constructor"
IndexListInherited(n) == [i \in 1..n |-> [name |-> i - 1]]

\* what collection.indexes() answers: a throw, or the list of indexes
IndexesAnswers ==
    { [ok |-> FALSE, list |-> <<>>] } \cup
    { [ok |-> TRUE, list |-> IndexList(n)] : n \in {IndexCeiling - 1, IndexCeiling} } \cup
    { [ok |-> TRUE, list |-> IndexListInherited(IndexCeiling)] }

Accesses(n) == [t |-> "object", ops |-> JSNum(n)]

\* what the $indexStats aggregation answers: a throw, or one record per index
StatsAnswers ==
    { [ok |-> FALSE, stats |-> <<>>],
      [ok |-> TRUE, stats |-> <<>>],
      [ok |-> TRUE, stats |-> << [name |-> 2, accesses |-> Accesses(3)],
                                 [name |-> 1, accesses |-> JSUndefined],
                                 [name |-> IndexCeiling, accesses |-> Accesses(7)],
                                 [name |-> 5, accesses |-> Accesses(3)],
                                 [name |-> 4, accesses |-> Accesses(0)] >>] }

\* usageMap[name], usageMap = {} filled by the loop over indexUsageStats
RECURSIVE UsageMapGet(_, _)
UsageMapGet(stats, name) ==
    IF stats = <<>>
    THEN (IF name = InheritedName THEN JSFunction ELSE JSUndefined)
    ELSE LET last == stats[Len(stats)]
         IN  IF last.name = name
             THEN (IF Truthy(last.accesses) /\ Truthy(last.accesses.ops)
                   THEN last.accesses.ops ELSE JSNum(0))
             ELSE UsageMapGet(SubSeq(stats, 1, Len(stats) - 1), name)

\* usageMap[index.name] || 0
UsageCount(stats, name) ==
    IF Truthy(UsageMapGet(stats, name)) THEN UsageMapGet(stats, name) ELSE JSNum(0)

\* b.usageCount - a.usageCount is NaN unless both are numbers
IsNumber(v) == v.t = "number"

\* the elements whose usageCount is one of `counts`, the highest count first,
\* the elements of equal count in the order of the list
RECURSIVE Descending(_, _)
Descending(list, counts) ==
    IF counts = {} THEN <<>>
    ELSE LET top == CHOOSE c \in counts : \A d \in counts : d <= c
             HasTop(e) == e.usageCount.n = top
         IN  SelectSeq(list, HasTop) \o Descending(list, counts \ {top})

\* .sort((a, b) => b.usageCount - a.usageCount) over numbers, a stable sort
SortByUsage(list) ==
    Descending(list, { list[i].usageCount.n : i \in 1..Len(list) })

\* the list with the usageCount of its first element taken as 0
HeadAsZero(list) == [list EXCEPT ![1].usageCount = JSNum(0)]

\* the list in the order of `sorted`, each element with its own usageCount
Reordered(list, sorted) ==
    [p \in 1..Len(sorted) |->
        IF sorted[p].name = list[1].name THEN list[1] ELSE sorted[p]]

\* what .sort((a, b) => b.usageCount - a.usageCount) may leave.  Over numbers
\* it is the stable sort.  A first element whose usageCount is no number makes
\* every comparison with it NaN: no element compares less than it, so a merge
\* or insertion sort leaves it first; the comparator is not consistent and the
\* order is the engine's choice, the order with that count taken as 0 included
SortOutcomes(list) ==
    IF \A i \in 1..Len(list) : IsNumber(list[i].usageCount)
    THEN { SortByUsage(list) }
    ELSE { << list[1] >> \o SortByUsage(Tail(list)),
           Reordered(list, SortByUsage(HeadAsZero(list))) }

\* indexes.map(index => ({ ...index, usageCount: usageMap[index.name] || 0 })),
\* the first n elements
RECURSIVE WithUsage(_, _, _)
WithUsage(list, stats, n) ==
    IF n = 0 THEN <<>>
    ELSE Append(WithUsage(list, stats, n - 1),
                [name |-> list[n].name, usageCount |-> UsageCount(stats, list[n].name)])

\* indexesWithUsage
IndexesWithUsage(list, stats) == SortOutcomes(WithUsage(list, stats, Len(list)))

ListCollections ==
    /\ pc = "list"
    /\ \E answer \in ListAnswers :
        IF ~answer.ok
        THEN /\ events' = events \o
                  << EvStore("listCollections", <<>>, 0, FALSE), EvError("query") >>
             /\ pc' = AfterCatch
             /\ UNCHANGED auditColls
        ELSE /\ events' = events \o << EvStore("listCollections", <<>>, 0, TRUE) >>
             /\ auditColls' = answer.colls
             /\ pc' = "auditMkdir"
    /\ UNCHANGED << driver, fs, dirs, configs, connected, idx, fieldIdx,
                    collectionResults, resultObj, finalResults, indexes, wIdx, exitCode >>

\* fs.mkdir(outputDir, { recursive: true }) inside the try block
AuditMkdir ==
    /\ pc = "auditMkdir"
    /\ \E ok \in BOOLEAN :
        IF ok
        THEN /\ events' = events \o << EvMkdir(IndexesDir, TRUE) >>
             /\ dirs' = dirs \cup {IndexesDir}
             /\ idx' = 1
             /\ pc' = "indexes"
        ELSE /\ events' = events \o << EvMkdir(IndexesDir, FALSE), EvError("query") >>
             /\ pc' = AfterCatch
             /\ UNCHANGED << dirs, idx >>
    /\ UNCHANGED << driver, fs, configs, connected, fieldIdx, collectionResults,
                    resultObj, finalResults, auditColls, indexes, wIdx, exitCode >>

\* one turn of `for (const collInfo of collections)` up to the threshold test
Indexes ==
    /\ pc = "indexes"
    /\ idx <= Len(auditColls)
    /\ \E answer \in IndexesAnswers :
        IF ~answer.ok
        THEN /\ events' = events \o
                  << EvLog("collection"),
                     EvIndexes(auditColls[idx], idx, FALSE, answer.list), EvError("indexes") >>
             /\ idx' = idx + 1
             /\ UNCHANGED << pc, indexes >>
        ELSE /\ indexes' = answer.list
             /\ IF Len(answer.list) >= IndexCeiling
                THEN /\ events' = events \o
                          << EvLog("collection"),
                             EvIndexes(auditColls[idx], idx, TRUE, answer.list),
                             EvLog("many") >>
                     /\ pc' = "stats"
                     /\ UNCHANGED idx
                ELSE /\ events' = events \o
                          << EvLog("collection"),
                             EvIndexes(auditColls[idx], idx, TRUE, answer.list),
                             EvLog("few") >>
                     /\ idx' = idx + 1
                     /\ UNCHANGED pc
    /\ UNCHANGED << driver, fs, dirs, configs, connected, fieldIdx, collectionResults,
                    resultObj, finalResults, auditColls, wIdx, exitCode >>

\* the $indexStats query and the output object built from it
IndexStats ==
    /\ pc = "stats"
    /\ \E answer \in StatsAnswers :
        /\ events' = events \o
             << EvIndexStats(auditColls[idx], idx, answer.ok, answer.stats) >> \o
             (IF answer.ok THEN <<>> ELSE << EvError("stats") >>)
        /\ \E indexesWithUsage \in IndexesWithUsage(indexes, answer.stats) :
            resultObj' = [collection |-> auditColls[idx],
                          indexCount |-> Len(indexes),
                          indexes |-> indexesWithUsage]
    /\ pc' = "auditWrite"
    /\ UNCHANGED << driver, fs, dirs, configs, connected, idx, fieldIdx,
                    collectionResults, finalResults, auditColls, indexes, wIdx, exitCode >>

\* the output object as JSON.stringify renders it
StringifiedOutput(output) ==
    [output EXCEPT !.indexes =
        [i \in 1..Len(@) |->
            [name |-> @[i].name, usageCount |-> Stringified(@[i].usageCount)]]]

\* fs.writeFile of the collection's index report
AuditWrite ==
    /\ pc = "auditWrite"
    /\ \E ok \in BOOLEAN :
        events' = events \o
            << EvWrite(IndexesDir, auditColls[idx] \o IndexesSuffix, ok,
                       JSONStringify(StringifiedOutput(resultObj))),
               IF ok THEN EvLog("written") ELSE EvError("write") >>
    /\ idx' = idx + 1
    /\ pc' = "indexes"
    /\ UNCHANGED << driver, fs, dirs, configs, connected, fieldIdx, collectionResults,
                    resultObj, finalResults, auditColls, indexes, wIdx, exitCode >>

\* the loop over the collections ends
AuditDone ==
    /\ pc = "indexes"
    /\ idx > Len(auditColls)
    /\ pc' = "close"
    /\ UNCHANGED << driver, fs, dirs, configs, connected, idx, fieldIdx,
                    collectionResults, resultObj, finalResults, auditColls, indexes,
                    wIdx, exitCode, events >>

(***************************************************************************)
(* Specifications.                                                         *)
(***************************************************************************)
Next ==
    \/ GenerateConfigs
    \/ LoadConfigs
    \/ Connect
    \/ NextConfig
    \/ Aggregate
    \/ EndFields
    \/ FindOne
    \/ Close
    \/ Mkdir
    \/ WriteResult
    \/ Finish
    \/ ListCollections
    \/ AuditMkdir
    \/ Indexes
    \/ IndexStats
    \/ AuditWrite
    \/ AuditDone

\* a whole run of one script
Spec == Init /\ [][Next]_vars

\* generateConfigs alone, over every Failure Report within the bounds
InitGen ==
    /\ driver = "rels"
    /\ pc = "generate"
    /\ dirs = {DirName(OutputFile)}
    /\ \E report \in ReportFiles(Reports(MaxCollections, MaxIndexes)) :
            fs = FileSystem(report, FileMissing, FileMissing)
    /\ configs = JSArr(<<>>)
    /\ ScriptVarsInit

SpecGen == InitGen /\ [][GenerateConfigs]_vars

\* the elements a plan handed to findDuplicates may hold: targets with the first
\* fields of FieldOrder, and the shapes that are no scan target
PlanElements ==
    { Target(JSStr(name), JSArr(SubSeq(FieldOrder, 1, n))) :
        name \in {UsersName, RelsName}, n \in 0..MaxFields } \cup
    { Target(JSStr(DigitName), JSArr(<< FieldOrder[1] >>)),
      JSNull,
      Target(JSUndefined, JSArr(<< FieldOrder[1] >>)),
      Target(JSStr(<<>>), JSArr(<< FieldOrder[1] >>)),
      Target(JSStr(UsersName), JSStr(FieldOrder[1])),
      Target(JSNum(5), JSArr(<< FieldOrder[1] >>)) }

ScanPlans(maxTargets) ==
    { [t |-> "object"] } \cup
    UNION { { JSArr(q) : q \in [1..k -> PlanElements] } : k \in 0..maxTargets }

\* findDuplicates alone, over every plan within the bounds
InitScan ==
    /\ driver \in {"plain", "rels"}
    /\ pc = "connect"
    /\ dirs = {}
    /\ fs = FileSystem(FileMissing, FileMissing, FileMissing)
    /\ \E plan \in ScanPlans(MaxTargets) : configs = plan
    /\ ScriptVarsInit

NextScan ==
    \/ Connect
    \/ NextConfig
    \/ Aggregate
    \/ EndFields
    \/ FindOne
    \/ Close

SpecScan == InitScan /\ [][NextScan]_vars

\* the plans of one target with one field
GroupPlans ==
    { JSArr(<< Target(JSStr(name), JSArr(<< FieldOrder[1] >>)) >>) :
        name \in {UsersName, RelsName} }

\* findDuplicates alone over one target, the scanned collection holding any
\* documents within the bounds
InitGroup ==
    /\ driver \in {"plain", "rels"}
    /\ pc = "connect"
    /\ dirs = {}
    /\ fs = FileSystem(FileMissing, FileMissing, FileMissing)
    /\ configs \in GroupPlans
    /\ ScriptVarsInit

AggregateStored == AggregateWith(StoreContents(MaxDocs))

NextGroup ==
    \/ Connect
    \/ NextConfig
    \/ AggregateStored
    \/ EndFields
    \/ FindOne
    \/ Close

SpecGroup == InitGroup /\ [][NextGroup]_vars

(***************************************************************************)
(* What a run has done so far, read from its calls.                        *)
(***************************************************************************)
EventIdx == 1..Len(events)

Did(op) == { i \in EventIdx : events[i].op = op }

Logged(msg) == \E i \in EventIdx :
    /\ events[i].op \in {"console.log", "console.error"}
    /\ events[i].msg = msg

\* findDuplicates has returned to main
Returned == driver # "audit" /\ pc \in {"mkdir", "write", "exited"} /\ Did("close") # {}

ConnectSucceeded == \E i \in Did("connect") : events[i].ok

AggregateFailed == \E i \in Did("aggregate") : ~events[i].ok

FindOneFailed == \E i \in Did("findOne") : ~events[i].ok

\* the grouping query for field j of target i was issued
Scanned(i, j) == \E e \in Did("aggregate") : events[e].at = <<i, j>>

\* a plan element that is a scan target: an object whose collection is a
\* non-empty string and whose fields is a sequence
IsScanTarget(config) ==
    /\ config.t = "object"
    /\ config.collection.t = "string"
    /\ config.collection.s # <<>>
    /\ config.fields.t = "array"

PlanWellFormed ==
    /\ configs.t = "array"
    /\ \A i \in 1..Len(configs.a) : IsScanTarget(configs.a[i])

PlanNamesDistinct ==
    \A i, j \in 1..Len(configs.a) :
        configs.a[i].collection = configs.a[j].collection => i = j

AllFieldsScanned ==
    \A i \in 1..Len(configs.a) :
        IsScanTarget(configs.a[i]) =>
            \A j \in 1..Len(configs.a[i].fields.a) : Scanned(i, j)

\* the Field Scan Results the returned result holds for a collection name
ReturnedResults(name) ==
    IF driver = "plain"
    THEN { finalResults[k].value : k \in { k \in 1..Len(finalResults) :
                                            finalResults[k].key = name.s } }
    ELSE { finalResults[k].results : k \in { k \in 1..Len(finalResults) :
                                              finalResults[k].collection = name } }

\* every Field Scan Result a query produced is in the returned result
CollectedResultsKept ==
    \A e \in Did("aggregate") :
        (events[e].ok /\ events[e].found) =>
            \E r \in ReturnedResults(events[e].coll) :
                \E k \in 1..Len(r) : r[k].field = events[e].field

(***************************************************************************)
(* C1: in findDuplicates of both drivers, a failed grouping query for one  *)
(* field is logged and counts as "no duplicates for that field": every     *)
(* remaining field and target is still scanned and the Field Scan Results  *)
(* collected so far are in the returned result.  Stated for the runs in    *)
(* which the only failures are failed grouping queries.                    *)
(***************************************************************************)
C1_ScanFailureIsolated ==
    (/\ Returned
     /\ ConnectSucceeded
     /\ PlanWellFormed
     /\ PlanNamesDistinct
     /\ AggregateFailed
     /\ ~FindOneFailed)
    => /\ Logged("query")
       /\ AllFieldsScanned
       /\ CollectedResultsKept

(***************************************************************************)
(* C2: if the Failure Report file is missing or is not valid structured    *)
(* data, the run aborts with a non-zero exit status at the generate stage: *)
(* no plan is loaded, no store connection is opened, no scan is issued and *)
(* no report artifact is written.                                          *)
(***************************************************************************)
ReportReadable == fs[InputFile].kind = "json"

C2_BadReportAborts ==
    (driver # "audit" /\ ~ReportReadable)
    => /\ pc \in {"generate", "load", "exited"}
       /\ pc = "exited" => exitCode # 0
       /\ Did("connect") = {}
       /\ Did("aggregate") = {}
       /\ Did("findOne") = {}
       /\ Did("writeFile") = {}

(***************************************************************************)
(* C3: in every run where the loader succeeds, the plan handed to the      *)
(* scanner is the plan the Config Generator derived from this run's        *)
(* Failure Report.                                                         *)
(***************************************************************************)
LoaderSucceeded ==
    /\ driver # "audit"
    /\ pc \notin {"generate", "load"}
    /\ ~Logged("load")

C3_LoadedPlanIsGenerated ==
    LoaderSucceeded
    => /\ ~Generated(fs[InputFile]).threw
       /\ configs = JSArr(Generated(fs[InputFile]).configs)

(***************************************************************************)
(* C4: when the findOne on meta.rels raises an error, the failure is       *)
(* logged and treated as "not found": the collection's Collection Result   *)
(* is still emitted, with its Field Scan Results and with neither          *)
(* cardinality field, and all remaining targets are still scanned.  Stated *)
(* for the runs in which the only failures are failed lookups.             *)
(***************************************************************************)
EmittedWithoutCardinality(i) ==
    \E k \in 1..Len(finalResults) :
        /\ finalResults[k].collection = configs.a[i].collection
        /\ Len(finalResults[k].results) > 0
        /\ finalResults[k].destCardinality = Absent
        /\ finalResults[k].sourceCardinality = Absent

C4_LookupFailureIsolated ==
    (/\ Returned
     /\ driver = "rels"
     /\ ConnectSucceeded
     /\ PlanWellFormed
     /\ FindOneFailed
     /\ ~AggregateFailed)
    => /\ Logged("query")
       /\ \A e \in Did("findOne") : ~events[e].ok => EmittedWithoutCardinality(events[e].at)
       /\ AllFieldsScanned

(***************************************************************************)
(* C5: each plan element that fails validation (its collection is not a    *)
(* non-empty string, or its fields is not a sequence), whatever its shape, *)
(* is skipped with a logged warning, and every well-formed element before  *)
(* and after it is still scanned.  Stated for the runs without a store     *)
(* failure.                                                                *)
(***************************************************************************)
SkippedWithWarning(i) ==
    /\ \E e \in EventIdx :
        /\ events[e].op = "console.error"
        /\ events[e].msg = "config"
        /\ events[e].at = i
    /\ \A e \in Did("aggregate") : events[e].at[1] # i

C5_InvalidElementsSkipped ==
    (/\ Returned
     /\ ConnectSucceeded
     /\ configs.t = "array"
     /\ ~AggregateFailed
     /\ ~FindOneFailed)
    => /\ \A i \in 1..Len(configs.a) :
            ~IsScanTarget(configs.a[i]) => SkippedWithWarning(i)
       /\ AllFieldsScanned

(***************************************************************************)
(* The Config Generator's contract, written from the report's text.        *)
(***************************************************************************)
\* the members of the report text, in the order the text lists them
ReportMembers == JSONParse(fs[InputFile]).members

\* the error code of an entry: the value at err.code when that value is present,
\* otherwise the value at err.errorResponse.code; undefined when there is none
ClaimedCode(indexData) ==
    IF indexData.err.t = "undefined" THEN JSUndefined
    ELSE IF indexData.err.code.t # "undefined" THEN indexData.err.code
    ELSE IF indexData.err.errorResponse.t = "undefined" THEN JSUndefined
    ELSE indexData.err.errorResponse.code

Qualifies(entry) == ClaimedCode(entry.value) = JSNum(DuplicateKey)

\* an index name without one trailing "_1"
WithoutSuffix(name) ==
    IF Len(name) >= 2 /\ name[Len(name) - 1] = "_" /\ name[Len(name)] = "1"
    THEN [i \in 1..(Len(name) - 2) |-> name[i]]
    ELSE name

\* the plans generateConfigs handed to fs.writeFile
EmittedPlans ==
    { events[w].content.doc.a : w \in { w \in Did("writeFile") : events[w].file = OutputFile } }

\* the emitted plan lists the entry's field under the entry's collection
Contributes(collection, entry) ==
    \E plan \in EmittedPlans :
        \E i \in 1..Len(plan) :
            /\ plan[i].collection = JSStr(collection)
            /\ \E j \in 1..Len(plan[i].fields.a) :
                  plan[i].fields.a[j] = WithoutSuffix(entry.key)

GeneratorRan == driver # "audit" /\ pc # "generate" /\ ReportReadable

(***************************************************************************)
(* C6: in generateConfigs an index entry contributes a field if and only   *)
(* if its error code is 11000, the code being the value at err.code when   *)
(* that value is present and otherwise the value at err.errorResponse.code;*)
(* an entry with another code or with no code at all is ignored for that   *)
(* entry only.                                                             *)
(***************************************************************************)
C6_ContributesIffDuplicateKey ==
    GeneratorRan
    => \A c \in 1..Len(ReportMembers) :
          \A k \in 1..Len(ReportMembers[c].value) :
              Contributes(ReportMembers[c].key, ReportMembers[c].value[k])
                  <=> Qualifies(ReportMembers[c].value[k])

HasQualifying(member) ==
    \E k \in 1..Len(member.value) : Qualifies(member.value[k])

ReferenceFields(entries) ==
    LET q == SelectSeq(entries, Qualifies)
    IN  [i \in 1..Len(q) |-> WithoutSuffix(q[i].key)]

\* one target per collection with a qualifying entry, in first-appearance order
ReferencePlan(members) ==
    LET q == SelectSeq(members, HasQualifying)
    IN  [i \in 1..Len(q) |->
            Target(JSStr(q[i].key), JSArr(ReferenceFields(q[i].value)))]

(***************************************************************************)
(* C7: for every Failure Report, the plan generateConfigs emits equals the *)
(* reference plan: one target per collection with at least one qualifying  *)
(* entry, in first-appearance order of the collection names, its fields    *)
(* the suffix-stripped qualifying index names in first-appearance order.   *)
(***************************************************************************)
C7_EmitsReferencePlan ==
    GeneratorRan => EmittedPlans = { ReferencePlan(ReportMembers) }

(***************************************************************************)
(* C8, as claimed: the process exits with status 0 on every run in which   *)
(* the report and the plan are readable and parseable, and prints the      *)
(* final summary in every such run; it exits non-zero only when the        *)
(* report or the plan is missing or unparseable.                           *)
(***************************************************************************)
PlanReadable == fs[ConfigFile].kind = "json"

SummaryPrinted == Logged("summary")

MkdirFailed == \E m \in Did("mkdir") : ~events[m].ok

WriteFailed == \E w \in Did("writeFile") : ~events[w].ok

Exited == driver # "audit" /\ pc = "exited"

C9_ConnectionScoped ==
    /\ Cardinality(Did("connect")) <= 1
    /\ Cardinality(Did("close")) <= 1
    /\ (pc = "exited" /\ Did("connect") # {}) => Cardinality(Did("close")) = 1
    /\ \A c \in Did("close") : \A i \in EventIdx :
          events[i].op \in StoreOps \cup {"connect"} => i < c

\* a run that ended after a failed lookup, its connection released
C9_Witness ==
    /\ pc = "exited"
    /\ FindOneFailed
    /\ Cardinality(Did("close")) = 1

(***************************************************************************)
(* C10: no file is written into an output directory before the             *)
(* directory-creation step for that directory has run in the same run,     *)
(* the plan artifact of the Config Generator included.                     *)
(***************************************************************************)
C10_MkdirBeforeWrite ==
    \A w \in Did("writeFile") :
        events[w].ok =>
            \E m \in Did("mkdir") : m < w /\ events[m].dir = events[w].dir

(***************************************************************************)
(* What the write stage of main has done.                                  *)
(***************************************************************************)
\* the writeFile calls of the write stage: the ones after the mkdir of main
StageWrites == { w \in Did("writeFile") : \E m \in Did("mkdir") : m < w }

\* the write stage ran to its end
WriteStageDone == Exited /\ Did("mkdir") # {} /\ ~MkdirFailed

\* the file names of the per-collection artifacts of the returned result
ArtifactFiles == { Artifact(i).file : i \in 1..Len(finalResults) }

(***************************************************************************)
(* C11: a run that reaches the write stage writes, besides one             *)
(* per-collection artifact for each Collection Result, one run-summary     *)
(* artifact containing the full array of Collection Results of the run.    *)
(***************************************************************************)
C11_RunSummaryWritten ==
    WriteStageDone
    => \E w \in StageWrites : events[w].file \notin ArtifactFiles

(***************************************************************************)
(* The enrichment of the rels driver, read from its calls.                 *)
(***************************************************************************)
\* the metadata lookups issued for target i
Lookups(i) == { e \in Did("findOne") : events[e].at = i }

\* the collection name of the element is a string that contains "rels"
ContainsRels(config) ==
    /\ IsScanTarget(config)
    /\ Includes(config.collection.s, <<"r", "e", "l", "s">>)

\* a grouping query of target i answered with at least one group
ProducedResult(i) ==
    \E e \in Did("aggregate") :
        events[e].at[1] = i /\ events[e].ok /\ events[e].found

\* the elements of the plan handed to findDuplicates
PlanIdx == IF configs.t = "array" THEN 1..Len(configs.a) ELSE {}

(***************************************************************************)
(* C12: in the rels driver, for every scan target, the metadata lookup on  *)
(* meta.rels is attempted if and only if the collection name contains      *)
(* "rels" and the target produced at least one Field Scan Result, and it   *)
(* is attempted at most once per target.                                   *)
(***************************************************************************)
C12_LookupIffRelsAndResults ==
    (driver = "rels" /\ Returned)
    => \A i \in PlanIdx :
        /\ Cardinality(Lookups(i)) <= 1
        /\ Lookups(i) # {} <=> (ContainsRels(configs.a[i]) /\ ProducedResult(i))

\* the cardinality one side of a metadata record carries, if any
RecordCardinality(side) ==
    IF side.t = "object" /\ side.cardinality.t # "undefined"
    THEN side.cardinality
    ELSE Absent

\* the two cardinality fields of a Collection Result, as JSON.stringify renders
\* them, are the ones of the record the lookup answered with
CardinalitiesFrom(r, doc) ==
    IF doc.t = "object"
    THEN /\ Stringified(r.destCardinality) = RecordCardinality(doc.dest)
         /\ Stringified(r.sourceCardinality) = RecordCardinality(doc.source)
    ELSE /\ Stringified(r.destCardinality) = Absent
         /\ Stringified(r.sourceCardinality) = Absent

(***************************************************************************)
(* C13: in every Collection Result of the rels driver, destCardinality     *)
(* (respectively sourceCardinality) is present if and only if the          *)
(* collection name contains "rels", the lookup found a metadata record for *)
(* the name, and the record carries dest.cardinality (respectively         *)
(* source.cardinality); when present it equals the record's value; the two *)
(* fields are present independently; otherwise the field is absent, not    *)
(* null.                                                                   *)
(***************************************************************************)
C13_CardinalityFromRecord ==
    driver = "rels"
    => \A k \in 1..Len(finalResults) :
        LET r == finalResults[k]
        IN  IF r.collection.t = "string"
               /\ Includes(r.collection.s, <<"r", "e", "l", "s">>)
            THEN \E e \in Did("findOne") :
                    /\ events[e].coll = r.collection
                    /\ events[e].ok
                    /\ CardinalitiesFrom(r, events[e].doc)
            ELSE /\ r.destCardinality = Absent
                 /\ r.sourceCardinality = Absent

\* the Field Scan Results of the k-th Collection Result findDuplicates returned
ResultsOf(k) ==
    IF driver = "plain" THEN finalResults[k].value ELSE finalResults[k].results

\* the name of the k-th Collection Result, as a sequence of characters
NameOf(k) ==
    IF driver = "plain" THEN finalResults[k].key
    ELSE JSToString(finalResults[k].collection)

\* the Collection Result a writeFile call of the write stage was handed
Written(w) == events[w].content.doc

\* a non-empty list of Field Scan Results, each with a non-empty duplicates list
NonEmptyResults(results) ==
    /\ Len(results) > 0
    /\ \A j \in 1..Len(results) : Len(results[j].duplicates) > 0

\* every Field Scan Result of the list stems from a grouping query on the named
\* collection and field that answered with at least one group
FromFinds(name, results) ==
    \A j \in 1..Len(results) :
        \E e \in Did("aggregate") :
            /\ JSToString(events[e].coll) = name
            /\ events[e].field = results[j].field
            /\ events[e].ok
            /\ events[e].found

(***************************************************************************)
(* C14: every Field Scan Result in a returned or written Collection Result *)
(* has a non-empty duplicates list and stems from a scan that found a      *)
(* group; every Collection Result returned by findDuplicates or written by *)
(* the writer has a non-empty results list.                                *)
(***************************************************************************)
C14_NoEmptyResults ==
    driver # "audit"
    => /\ \A k \in 1..Len(finalResults) :
            NonEmptyResults(ResultsOf(k)) /\ FromFinds(NameOf(k), ResultsOf(k))
       /\ \A w \in StageWrites :
            /\ NonEmptyResults(Written(w).results)
            /\ FromFinds(JSToString(Written(w).collection), Written(w).results)

\* a run that ended after a scan without a group, a scan with a group, and the
\* write of an artifact
C14_Witness ==
    /\ Exited
    /\ StageWrites # {}
    /\ \E e \in Did("aggregate") : events[e].ok /\ ~events[e].found
    /\ \E e \in Did("aggregate") : events[e].ok /\ events[e].found

\* the k-th writeFile call of the write stage
StageWrite(k) ==
    CHOOSE w \in StageWrites : Cardinality({ v \in StageWrites : v < w }) = k - 1

(***************************************************************************)
(* C15: when the write of one collection's artifact fails, the failure is  *)
(* logged and a write is still attempted for every other Collection Result *)
(* of the run; exactly one write is attempted per Collection Result, to a  *)
(* file named <collection>_duplicates.json.                                *)
(***************************************************************************)
C15_WriteFailureIsolated ==
    (driver # "audit" /\ WriteStageDone)
    => /\ Cardinality(StageWrites) = Len(finalResults)
       /\ \A k \in 1..Len(finalResults) :
            /\ events[StageWrite(k)].file = NameOf(k) \o DuplicatesSuffix
            /\ events[StageWrite(k)].dir = OutputDir
            /\ ~events[StageWrite(k)].ok =>
                    events[StageWrite(k) + 1] = EvError("write")

\* a run with two Collection Results whose first write failed
C15_Witness ==
    /\ driver # "audit"
    /\ WriteStageDone
    /\ Len(finalResults) = 2
    /\ Cardinality(StageWrites) = 2
    /\ ~events[StageWrite(1)].ok

\* the writeFile calls that write a report artifact: all but the write of the
\* plan, which generateConfigs issues right after its read of the report
ReportWrites == { w \in Did("writeFile") : events[w - 1].op # "readFile" }

(***************************************************************************)
(* C16: if the plan artifact the driver loads is unreadable or not         *)
(* parseable, the run ends with a non-zero exit status before any store    *)
(* connection is opened, any scan is issued or any report artifact is      *)
(* written.                                                                *)
(***************************************************************************)
C16_BadPlanAborts ==
    (driver # "audit" /\ pc # "generate" /\ ~PlanReadable)
    => /\ pc \in {"load", "exited"}
       /\ pc = "exited" => exitCode # 0
       /\ Did("connect") = {}
       /\ Did("aggregate") = {}
       /\ Did("mkdir") = {}
       /\ ReportWrites = {}

\* a run that ended at the load of an unreadable plan
C16_Witness ==
    /\ driver # "audit"
    /\ ~PlanReadable
    /\ pc = "exited"
    /\ Logged("load")
    /\ exitCode = 1

\* the Duplicate Groups a list of Field Scan Results holds
GroupsIn(results) ==
    UNION { { results[j].duplicates[m] : m \in 1..Len(results[j].duplicates) } :
            j \in 1..Len(results) }

\* the Duplicate Groups the scanner has returned so far
ReturnedGroups ==
    GroupsIn(collectionResults) \cup
    UNION { GroupsIn(ResultsOf(k)) : k \in 1..Len(finalResults) }

(***************************************************************************)
(* C17: for every Duplicate Group the scanner returns for any field, count *)
(* equals the number of member identifiers captured in the group and count *)
(* is greater than 1; the group for the value null (the documents lacking  *)
(* the field) obeys the same rule.                                         *)
(***************************************************************************)
C17_CountIsMembers ==
    driver # "audit"
    => \A g \in ReturnedGroups :
        /\ g.count = Len(g.docs)
        /\ g.count > 1
        /\ \A i, j \in 1..Len(g.docs) : g.docs[i] = g.docs[j] => i = j

\* a returned result with the group of two documents lacking the field beside
\* the group of a value
C17_Witness ==
    /\ Returned
    /\ \E g \in ReturnedGroups : g.id = JSNull /\ g.count = 2
    /\ \E g \in ReturnedGroups : g.id = JSStr(<<"v">>)
    /\ \A g \in ReturnedGroups : g.id # JSStr(<<"w">>)

(***************************************************************************)
(* The index audit, read from its calls.                                   *)
(***************************************************************************)
\* the artifacts the audit handed to writeFile for the collection
AuditArtifacts(coll) ==
    { events[w].content.doc : w \in { w \in Did("writeFile") :
                                        events[w].content.doc.collection = coll } }

\* the usage statistics the audit got for the collection, none if the query
\* failed or was not issued
StatsFor(coll) ==
    IF \E e \in Did("indexStats") : events[e].coll = coll
    THEN events[CHOOSE e \in Did("indexStats") : events[e].coll = coll].stats
    ELSE <<>>

\* the usage count of an index: the operations its statistic reports, 0 when
\* the statistic reports none or there is no statistic for the index
RECURSIVE UsageOf(_, _)
UsageOf(stats, name) ==
    IF stats = <<>> THEN 0
    ELSE LET last == stats[Len(stats)]
         IN  IF last.name = name
             THEN (IF last.accesses.t = "object" THEN last.accesses.ops.n ELSE 0)
             ELSE UsageOf(SubSeq(stats, 1, Len(stats) - 1), name)

\* the artifact lists every listed index exactly once
ListsEachOnce(artifact, list) ==
    /\ Len(artifact.indexes) = Len(list)
    /\ \A i \in 1..Len(list) :
        Cardinality({ p \in 1..Len(artifact.indexes) :
                        artifact.indexes[p].name = list[i].name }) = 1

\* the artifact's list is ordered by usage count, non-increasing
OrderedByUsage(artifact, stats) ==
    \A p \in 1..(Len(artifact.indexes) - 1) :
        UsageOf(stats, artifact.indexes[p].name) >=
            UsageOf(stats, artifact.indexes[p + 1].name)

(***************************************************************************)
(* C18: in the index audit, an artifact is written for a collection whose  *)
(* indexes were listed if and only if its index count is at least 64; the  *)
(* artifact's indexCount is the number of listed indexes, its indexes list *)
(* contains every listed index exactly once, and the list is ordered by    *)
(* usage count non-increasing, an index with no usage statistic counting   *)
(* as 0.                                                                   *)
(***************************************************************************)
C18_AuditArtifacts ==
    (driver = "audit" /\ pc = "exited")
    => \A e \in Did("indexes") :
        events[e].ok =>
            /\ AuditArtifacts(events[e].coll) # {} <=> Len(events[e].list) >= IndexCeiling
            /\ \A artifact \in AuditArtifacts(events[e].coll) :
                /\ artifact.indexCount = Len(events[e].list)
                /\ ListsEachOnce(artifact, events[e].list)
                /\ OrderedByUsage(artifact, StatsFor(events[e].coll))

\* the indices of the plan elements, in plan order
PlanOrder == [i \in 1..Cardinality(PlanIdx) |-> i]

\* the targets that produced at least one Field Scan Result, in plan order
ProducingTargets == SelectSeq(PlanOrder, ProducedResult)

\* the collection names of those targets, in plan order
ProducingNames ==
    [k \in 1..Len(ProducingTargets) |->
        JSToString(configs.a[ProducingTargets[k]].collection)]

\* the collection names of the returned result, in its order
ReturnedNames == [k \in 1..Len(finalResults) |-> NameOf(k)]

(***************************************************************************)
(* C19: the sequence of collection names in the final result (and so the   *)
(* order of the written artifacts) is the plan's sequence of collection    *)
(* names restricted to the targets that produced at least one Field Scan   *)
(* Result, in plan order, with one Collection Result per such target, also *)
(* when the same collection name occurs in more than one target.           *)
(***************************************************************************)
C19_ResultInPlanOrder ==
    Returned => ReturnedNames = ProducingNames

\* a plan element whose fields were gone through: an object with a name and a
\* sequence of fields
HasFields(i) ==
    /\ configs.a[i].t = "object"
    /\ configs.a[i].collection.t \in {"string", "number"}
    /\ configs.a[i].fields.t = "array"

\* the grouping query of every field of target i was issued and answered
CompleteScan(i) ==
    \A j \in 1..Len(configs.a[i].fields.a) :
        \E e \in Did("aggregate") : events[e].at = <<i, j>> /\ events[e].ok

\* field j of target i was scanned and a group was found
FoundAt(i, j) ==
    \E e \in Did("aggregate") :
        events[e].at = <<i, j>> /\ events[e].ok /\ events[e].found

\* the fields of target i for which a group was found, in the target's order
FoundFields(i) ==
    LET Found(j) == FoundAt(i, j)
        order == [j \in 1..Len(configs.a[i].fields.a) |-> j]
        found == SelectSeq(order, Found)
    IN  [k \in 1..Len(found) |-> configs.a[i].fields.a[found[k]]]

\* the enrichment step of target i, where there is one, has finished
EnrichmentDone(i) ==
    (driver = "rels" /\ ContainsRels(configs.a[i]))
    => \E e \in Lookups(i) : events[e].ok

\* the k-th Collection Result covers all fields of target i
Covers(k, i) ==
    /\ HasFields(i)
    /\ JSToString(configs.a[i].collection) = NameOf(k)
    /\ CompleteScan(i)
    /\ [m \in 1..Len(ResultsOf(k)) |-> ResultsOf(k)[m].field] = FoundFields(i)
    /\ EnrichmentDone(i)

(***************************************************************************)
(* C20: a Collection Result is added to the final result only after every  *)
(* field of its target has been scanned and, in the rels driver, after its *)
(* enrichment step has finished: after any sequence of failures, every     *)
(* Collection Result returned and every per-collection artifact written    *)
(* covers all fields of its target, and none reports a target whose field  *)
(* loop was cut short.                                                     *)
(***************************************************************************)
C20_ResultsCoverTarget ==
    driver # "audit"
    => /\ \A k \in 1..Len(finalResults) : \E i \in PlanIdx : Covers(k, i)
       /\ \A w \in StageWrites :
            \E k \in 1..Len(finalResults) :
                /\ events[w].file = Artifact(k).file
                /\ events[w].content = Artifact(k).text

\* a run that wrote the artifact of a target after the scan of a later target
\* was cut short by a failed query
C20_Witness ==
    /\ Exited
    /\ AggregateFailed
    /\ Len(finalResults) > 0
    /\ StageWrites # {}

====
